---- MODULE Spec2Model ----
(***************************************************************************)
(* A model of notebooks/titanic.ipynb: the DuckDB database that            *)
(* get_create_titanic_db builds, the partitioner create_random_samples,    *)
(* the cross-check cell, and the pointblank validation of the table.       *)
(*                                                                         *)
(* A table is a record [cols, rows]: cols is the sequence of column names, *)
(* rows the sequence of rows in scan order, a row a sequence of cells.     *)
(* A cell is <<>> (SQL NULL / pandas NA) or <<v>> (the value v).           *)
(* A column name is <<base, k>>: <<"id", 0>> is "id", <<"id", 1>> the name *)
(* DuckDB gives a second column called id ("id_1", "id:1" before 0.10).    *)
(***************************************************************************)
EXTENDS Integers, Sequences, FiniteSets, TLC

\* ------------------------------------------------------------------ bounds
MaxRows == 5        \* rows of the CSV file served at the url
MaxN == 5           \* largest n_sample passed to create_random_samples
MaxIdCols == 3      \* id columns a table may collect before the model stops
MaxValRows == 2     \* rows of a table handed to the validation

\* ------------------------------------------------------- program constants
MIN_AGE == 0
MAX_AGE == 70
MIN_FARE == 0
MAX_FARE == 500
PASSENGER_CLASS == {1, 2, 3}
PORT_EMBARKED == {"C", "Q", "S"}
SURVIVED == {0, 1}
SEX == {"male", "female"}
DEFAULT_RANDOM_SEED == 42

VARIABLES
    fileExists,     \* Path(db_path).exists()
    catalog,        \* the database's tables: table name -> table
    raised,         \* the exception the last call ended in, "none" if it returned
    lastCall,       \* history: the arguments of the last get_create_titanic_db call
    firstIds,       \* history: the id each row got when titanic was first given ids
    np_random,      \* numpy's global generator (seeded from OS entropy at import)
    samples,        \* create_random_samples()[0]
    sample_size,    \* create_random_samples()[1]
    call,           \* history: the last create_random_samples call and its table
    prev,           \* history: the create_random_samples call before that one
    identical,      \* the cross-check cell's verdict
    validation,     \* the interrogated pb.Validate object
    sundered        \* what validation.get_sundered_data() returned

vars == <<fileExists, catalog, raised, lastCall, firstIds, np_random, samples,
          sample_size, call, prev, identical, validation, sundered>>

dbVars == <<fileExists, catalog, lastCall, firstIds>>
partVars == <<np_random, samples, sample_size, call, prev, identical>>
valVars == <<validation, sundered>>

\* -------------------------------------------------------------- cells
NULL == <<>>
Val(v) == <<v>>
IsNull(c) == c = NULL
Get(c) == c[1]

Name(base) == <<base, 0>>

\* The columns of titanic3.csv the notebook uses, in file order.
CsvCols == <<Name("pclass"), Name("survived"), Name("sex"), Name("age"),
             Name("ticket"), Name("fare"), Name("embarked")>>

\* The k-th passenger of edition e of the file: distinct rows with a mix of
\* nulls, in-range and out-of-range values, as in the real file.
Passenger(e, k) ==
    <<Val(1 + ((k + e) % 3)),
      Val((k + e) % 2),
      Val(IF k % 2 = 0 THEN "female" ELSE "male"),
      IF (k + e) % 4 = 3 THEN NULL ELSE Val(11 * k + 30 * e + 19),
      Val(24160 + k + 100 * e),
      IF (k + e) % 5 = 4 THEN NULL ELSE Val(211 + 150 * k),
      IF k % 3 = 2 THEN NULL ELSE Val(IF k % 2 = 0 THEN "S" ELSE "C")>>

Editions == {0, 1}

CsvFile(e, r) == [cols |-> CsvCols, rows |-> [k \in 1..r |-> Passenger(e, k)]]

CsvFiles == {CsvFile(e, r) : e \in Editions, r \in 0..MaxRows}

\* -------------------------------------------------------------- tables
ColIndex(t, name) == CHOOSE i \in 1..Len(t.cols) : t.cols[i] = name
Cell(t, row, name) == row[ColIndex(t, name)]

\* The columns of t called base, under any of the names DuckDB gives them.
ColsNamed(t, base) == {i \in 1..Len(t.cols) : t.cols[i][1] = base}

\* The name a new column `base` gets in CREATE TABLE AS: DuckDB renames a
\* duplicate to the first free base_k.
DedupName(cols, base) ==
    <<base, CHOOSE k \in 0..Len(cols) :
                /\ \A i \in 1..Len(cols) : cols[i] # <<base, k>>
                /\ \A j \in 0..(k - 1) : \E i \in 1..Len(cols) : cols[i] = <<base, j>> >>

\* SELECT *, ROW_NUMBER() OVER () AS id FROM t: the rows numbered in scan order
WithRowNumber(t) ==
    [cols |-> Append(t.cols, DedupName(t.cols, "id")),
     rows |-> [i \in 1..Len(t.rows) |-> Append(t.rows[i], Val(i))]]

\* -------------------------------------------------------------- catalog
NoTables == [n \in {} |-> NULL]
HasTable(cat, n) == n \in DOMAIN cat
Put(cat, n, t) == [m \in (DOMAIN cat) \cup {n} |-> IF m = n THEN t ELSE cat[m]]
Drop(cat, n) == [m \in (DOMAIN cat) \ {n} |-> cat[m]]

Ok(cat) == [cat |-> cat, err |-> "none"]
Err(cat, e) == [cat |-> cat, err |-> e]

\* CREATE TABLE IF NOT EXISTS titanic AS SELECT * FROM read_csv('{url}')
CreateTitanicIfNotExists(cat, csv, fetch_ok) ==
    IF HasTable(cat, "titanic") THEN Ok(cat)
    ELSE IF ~fetch_ok THEN Err(cat, "IOException")
    ELSE Ok(Put(cat, "titanic", csv))

\* CREATE TABLE titanic_with_id AS SELECT *, ROW_NUMBER() OVER () AS id FROM titanic
CreateTitanicWithId(cat) ==
    IF HasTable(cat, "titanic_with_id") THEN Err(cat, "CatalogException")
    ELSE Ok(Put(cat, "titanic_with_id", WithRowNumber(cat["titanic"])))

\* DROP TABLE titanic
DropTitanic(cat) ==
    IF HasTable(cat, "titanic") THEN Ok(Drop(cat, "titanic"))
    ELSE Err(cat, "CatalogException")

\* ALTER TABLE titanic_with_id RENAME TO titanic
RenameToTitanic(cat) ==
    IF HasTable(cat, "titanic") \/ ~HasTable(cat, "titanic_with_id")
    THEN Err(cat, "CatalogException")
    ELSE Ok(Put(Drop(cat, "titanic_with_id"), "titanic", cat["titanic_with_id"]))

\* The four statements of the create branch, each run only if the one before
\* it did not raise (con.execute autocommits each statement).
CreateBranch(cat, csv, fetch_ok) ==
    LET r1 == CreateTitanicIfNotExists(cat, csv, fetch_ok)
        r2 == IF r1.err = "none" THEN CreateTitanicWithId(r1.cat) ELSE r1
        r3 == IF r2.err = "none" THEN DropTitanic(r2.cat) ELSE r2
    IN IF r3.err = "none" THEN RenameToTitanic(r3.cat) ELSE r3

\* The values of t's column "id", in scan order.
IdColumn(t) == [i \in 1..Len(t.rows) |-> Get(Cell(t, t.rows[i], Name("id")))]

NoCall == [done |-> FALSE, force_create |-> FALSE, existed |-> FALSE,
           had_table |-> FALSE, fetch_ok |-> FALSE, csv |-> CsvFile(0, 0)]

get_create_titanic_db(csv, fetch_ok, force_create) ==
    /\ lastCall' = [done |-> TRUE, force_create |-> force_create,
                    existed |-> fileExists,
                    had_table |-> HasTable(catalog, "titanic"),
                    fetch_ok |-> fetch_ok, csv |-> csv]
    /\ IF ~fileExists \/ force_create
       THEN LET r == CreateBranch(catalog, csv, fetch_ok) IN
            /\ HasTable(r.cat, "titanic")
                   => Cardinality(ColsNamed(r.cat["titanic"], "id")) <= MaxIdCols
            /\ fileExists' = TRUE          \* duckdb.connect creates the file
            /\ catalog' = r.cat
            /\ raised' = r.err
            /\ firstIds' = IF ~HasTable(catalog, "titanic") /\ HasTable(r.cat, "titanic")
                           THEN IdColumn(r.cat["titanic"])
                           ELSE firstIds
       ELSE /\ raised' = "none"
            /\ UNCHANGED <<fileExists, catalog, firstIds>>
    /\ UNCHANGED <<partVars, valVars>>

\* ------------------------------------------------------------ partitioner
Min(a, b) == IF a < b THEN a ELSE b
Max(a, b) == IF a > b THEN a ELSE b

\* total_rows // n_sample
FloorDiv(a, b) == IF b > 0 THEN a \div b ELSE -((a + (-b) - 1) \div (-b))

\* math.ceil(a / b) for an integer a >= 0 and b # 0 (true division, then ceil).
CeilDiv(a, b) == IF b > 0 THEN (a + b - 1) \div b ELSE -(a \div (-b))

\* A stand-in for the Mersenne Twister of numpy's RandomState: a generator
\* whose stream is a function of its seed alone.
RandomState(seed) == seed % 65537
RkNext(state) == (75 * state + 74) % 65537
\* rk_interval(max, state): a draw in 0..max
RkInterval(max, state) == state % (max + 1)

Swap(x, i, j) == [x EXCEPT ![i] = x[j], ![j] = x[i]]

\* RandomState.permutation(n): Fisher-Yates over arange(n), from the top down.
\* x is 1-based here: x[k] is numpy's x[k-1].
RECURSIVE Shuffle(_, _, _)
Shuffle(x, i, state) ==
    IF i < 1 THEN x
    ELSE LET s == RkNext(state) IN
         Shuffle(Swap(x, i + 1, RkInterval(i, s) + 1), i - 1, s)

Permutation(n, state) == Shuffle([k \in 1..n |-> k], n - 1, state)

\* df.take(locs).reset_index(drop=True)
Take(df, locs) == [cols |-> df.cols, rows |-> [k \in 1..Len(locs) |-> df.rows[locs[k]]]]

\* df.sample(frac=1, random_state=None): draws from numpy's global generator
\* and so moves it on.
SampleFromGlobal(df, random_state, global) ==
    [frame |-> Take(df, Permutation(Len(df.rows), global)), global |-> RkNext(global)]

\* df.sample(frac=1, random_state=seed).reset_index(drop=True): a permutation
\* drawn from a fresh RandomState(seed); the global generator is not touched.
Sample(df, random_state, global) ==
    [frame |-> Take(df, Permutation(Len(df.rows), RandomState(random_state))),
     global |-> global]

\* A Python slice bound k on a sequence of length len.
PyIndex(k, len) == IF k < 0 THEN Max(len + k, 0) ELSE Min(k, len)

\* df.iloc[start:stop]
IlocInclusiveStop(df, start, stop) ==
    [cols |-> df.cols,
     rows |-> SubSeq(df.rows, PyIndex(start, Len(df.rows)) + 1,
                     PyIndex(stop + 1, Len(df.rows)))]

Iloc(df, start, stop) ==
    [cols |-> df.cols,
     rows |-> SubSeq(df.rows, PyIndex(start, Len(df.rows)) + 1,
                     PyIndex(stop, Len(df.rows)))]

\* range(1, n + 1) as a sequence
RangeFromOne(n) == [k \in 1..Max(n, 0) |-> k]

\* range(n) as a sequence
Range(n) == [k \in 1..Max(n, 0) |-> k - 1]

Seeds == {DEFAULT_RANDOM_SEED, 7}
Entropy == {11}
SampleCounts == (-1)..MaxN

NoPartition == [done |-> FALSE, n_sample |-> 0, RANDOM_SEED |-> 0,
                table |-> CsvFile(0, 0), raised |-> "none",
                rows_per_sample |-> 0, shuffled |-> CsvFile(0, 0),
                returned |-> <<>>]

\* The body of create_random_samples on a database holding titanic.
Partition(all_rows, n_sample, RANDOM_SEED, global) ==
    LET total_rows == Len(all_rows.rows)
        rows_per_sample == CeilDiv(total_rows, n_sample)
        s == Sample(all_rows, RANDOM_SEED, global)
        shuffled_rows == s.frame
        samples_ == [k \in 1..Len(Range(n_sample)) |->
                        LET offset == Range(n_sample)[k] * rows_per_sample IN
                        Iloc(shuffled_rows, offset, offset + rows_per_sample)]
    IN [rows_per_sample |-> rows_per_sample,
        shuffled |-> shuffled_rows,
        global |-> s.global,
        samples |-> samples_,
        sample_size |-> [k \in 1..Len(samples_) |-> Len(samples_[k].rows)]]

\* samples, sample_size = create_random_samples(con, n_sample, RANDOM_SEED)
create_random_samples(n_sample, RANDOM_SEED) ==
    /\ prev' = call
    /\ IF ~HasTable(catalog, "titanic")
       THEN /\ raised' = "CatalogException"
            /\ call' = [NoPartition EXCEPT !.done = TRUE, !.n_sample = n_sample,
                            !.RANDOM_SEED = RANDOM_SEED, !.raised = "CatalogException"]
            /\ UNCHANGED <<samples, sample_size, np_random>>
       ELSE IF n_sample = 0
       THEN /\ raised' = "ZeroDivisionError"
            /\ call' = [NoPartition EXCEPT !.done = TRUE, !.n_sample = n_sample,
                            !.RANDOM_SEED = RANDOM_SEED, !.table = catalog["titanic"],
                            !.raised = "ZeroDivisionError"]
            /\ UNCHANGED <<samples, sample_size, np_random>>
       ELSE LET p == Partition(catalog["titanic"], n_sample, RANDOM_SEED, np_random) IN
            /\ raised' = "none"
            /\ samples' = p.samples
            /\ sample_size' = p.sample_size
            /\ np_random' = p.global
            /\ call' = [done |-> TRUE, n_sample |-> n_sample,
                        RANDOM_SEED |-> RANDOM_SEED, table |-> catalog["titanic"],
                        raised |-> "none", rows_per_sample |-> p.rows_per_sample,
                        shuffled |-> p.shuffled,
                        returned |-> <<p.samples, p.sample_size>>]
    /\ UNCHANGED <<dbVars, identical, valVars>>

\* pd.concat(frames)
RECURSIVE ConcatRows(_)
ConcatRows(frames) ==
    IF frames = <<>> THEN <<>> ELSE Head(frames).rows \o ConcatRows(Tail(frames))

Concat(frames) == [cols |-> Head(frames).cols, rows |-> ConcatRows(frames)]

\* df.sort_values(by).reset_index(drop=True): ascending, nulls last. (pandas'
\* default quicksort is not stable; equal keys keep their order here.)
Before(df, by, r1, r2) ==
    LET c1 == Cell(df, r1, by)
        c2 == Cell(df, r2, by)
    IN IF IsNull(c1) THEN FALSE
       ELSE IF IsNull(c2) THEN TRUE
       ELSE Get(c1) < Get(c2)

RECURSIVE InsertSorted(_, _, _, _)
InsertSorted(df, by, sorted, row) ==
    IF sorted = <<>> THEN <<row>>
    ELSE IF Before(df, by, row, Head(sorted)) THEN <<row>> \o sorted
    ELSE <<Head(sorted)>> \o InsertSorted(df, by, Tail(sorted), row)

RECURSIVE SortRows(_, _, _)
SortRows(df, by, rows) ==
    IF rows = <<>> THEN <<>>
    ELSE InsertSorted(df, by, SortRows(df, by, SubSeq(rows, 1, Len(rows) - 1)),
                      rows[Len(rows)])

SortValuesUnsorted(df, by) == df

SortValues(df, by) == [cols |-> df.cols, rows |-> SortRows(df, by, df.rows)]

\* a.equals(b): the same column labels, shape and elements (nulls equal nulls)
Equals(a, b) == a.cols = b.cols /\ a.rows = b.rows

\* The cross-check cell, run once samples is bound.
cross_check ==
    /\ call.done /\ call.raised = "none"
    /\ HasTable(catalog, "titanic")
    /\ IF samples = <<>>
       THEN /\ raised' = "ValueError"      \* pd.concat([]): no objects to concatenate
            /\ UNCHANGED identical
       ELSE LET original_df == catalog["titanic"]
                concat_samples == SortValues(Concat(samples), Name("id"))
            IN /\ identical' = IF Equals(original_df, concat_samples) THEN "Yes" ELSE "No"
               /\ raised' = "none"
    /\ UNCHANGED <<dbVars, np_random, samples, sample_size, call, prev, valVars>>

\* ------------------------------------------------------------- validation
\* The validation steps pointblank offers the notebook, as the plan records them.
ColValsNotNull(column) == [kind |-> "not_null", column |-> Name(column)]
ColValsBetween(column, left, right, na_pass) ==
    [kind |-> "between", column |-> Name(column), left |-> left, right |-> right,
     na_pass |-> na_pass]
ColValsInSet(column, set) == [kind |-> "in_set", column |-> Name(column), set |-> set]

\* The plan with the age range checked without na_pass.
TitanicRulesAgeNoNaPass ==
    <<ColValsNotNull("survived"), ColValsNotNull("pclass"), ColValsNotNull("sex"),
      ColValsNotNull("age"), ColValsNotNull("ticket"), ColValsNotNull("fare"),
      ColValsNotNull("embarked"),
      ColValsBetween("age", MIN_AGE, MAX_AGE, FALSE),
      ColValsBetween("fare", MIN_FARE, MAX_FARE, FALSE),
      ColValsInSet("pclass", PASSENGER_CLASS), ColValsInSet("embarked", PORT_EMBARKED),
      ColValsInSet("survived", SURVIVED), ColValsInSet("sex", SEX)>>

\* The plan with the membership check of embarked left out.
TitanicRulesNoEmbarkedSet ==
    <<ColValsNotNull("survived"), ColValsNotNull("pclass"), ColValsNotNull("sex"),
      ColValsNotNull("age"), ColValsNotNull("ticket"), ColValsNotNull("fare"),
      ColValsNotNull("embarked"),
      ColValsBetween("age", MIN_AGE, MAX_AGE, TRUE),
      ColValsBetween("fare", MIN_FARE, MAX_FARE, FALSE),
      ColValsInSet("pclass", PASSENGER_CLASS),
      ColValsInSet("survived", SURVIVED), ColValsInSet("sex", SEX)>>

\* The validation plan of validate_titanic_data_sample, in declaration order
\* (col_vals_between's na_pass defaults to False).
TitanicRules ==
    <<ColValsNotNull("survived"), ColValsNotNull("pclass"), ColValsNotNull("sex"),
      ColValsNotNull("age"), ColValsNotNull("ticket"), ColValsNotNull("fare"),
      ColValsNotNull("embarked"),
      ColValsBetween("age", MIN_AGE, MAX_AGE, TRUE),
      ColValsBetween("fare", MIN_FARE, MAX_FARE, FALSE),
      ColValsInSet("pclass", PASSENGER_CLASS), ColValsInSet("embarked", PORT_EMBARKED),
      ColValsInSet("survived", SURVIVED), ColValsInSet("sex", SEX)>>

\* Whether a cell passes a step: pointblank's test unit for one row.
CellPasses(step, c) ==
    IF step.kind = "not_null" THEN ~IsNull(c)
    ELSE IF step.kind = "between"
    THEN IF IsNull(c) THEN step.na_pass
         ELSE step.left <= Get(c) /\ Get(c) <= step.right
    ELSE ~IsNull(c) /\ Get(c) \in step.set

\* .interrogate(): every step is evaluated on every row of the data, each on
\* its own; the result keeps, per step, which rows passed, in row order.
Interrogate(data, rules) ==
    [done |-> TRUE,
     data |-> data,
     steps |-> [k \in 1..Len(rules) |->
                  [rule |-> rules[k],
                   passed |-> [i \in 1..Len(data.rows) |->
                                 CellPasses(rules[k], Cell(data, data.rows[i], rules[k].column))]]]]

RECURSIVE SelectRows(_, _, _)
SelectRows(rows, keep, i) ==
    IF i > Len(rows) THEN <<>>
    ELSE (IF keep[i] THEN <<rows[i]>> ELSE <<>>) \o SelectRows(rows, keep, i + 1)

\* Validate.get_sundered_data(type): the rows that passed every step
\* (type="pass", the default) or the rows that failed some step (type="fail").
GetSunderedData(v, type) ==
    LET clean == [i \in 1..Len(v.data.rows) |->
                     \A k \in 1..Len(v.steps) : v.steps[k].passed[i]]
        keep == [i \in 1..Len(v.data.rows) |-> IF type = "pass" THEN clean[i] ELSE ~clean[i]]
    IN [cols |-> v.data.cols, rows |-> SelectRows(v.data.rows, keep, 1)]

NoValidation == [done |-> FALSE, data |-> CsvFile(0, 0), steps |-> <<>>]
NoSunder == [done |-> FALSE, of |-> NoValidation, returned |-> NoTables]

\* validation = validate_titanic_data_sample(original_df)
validate_titanic_data_sample ==
    /\ HasTable(catalog, "titanic")
    /\ validation' = Interrogate(catalog["titanic"], TitanicRules)
    /\ raised' = "none"
    /\ UNCHANGED <<dbVars, partVars, sundered>>

\* validation.get_sundered_data(): one table comes back, the default piece.
get_sundered_data ==
    /\ validation.done
    /\ sundered' = [done |-> TRUE,
                    of |-> validation,
                    returned |-> [type \in {"pass"} |-> GetSunderedData(validation, type)]]
    /\ raised' = "none"
    /\ UNCHANGED <<dbVars, partVars, validation>>

\* ------------------------------------------------- database specification
NotebookIdle ==
    /\ np_random = 0
    /\ samples = <<>>
    /\ sample_size = <<>>
    /\ call = NoPartition
    /\ prev = NoPartition
    /\ identical = "unset"
    /\ validation = NoValidation
    /\ sundered = NoSunder

Init ==
    /\ fileExists = FALSE
    /\ catalog = NoTables
    /\ raised = "none"
    /\ lastCall = NoCall
    /\ firstIds = <<>>
    /\ NotebookIdle

Next ==
    \E csv \in CsvFiles, fetch_ok \in BOOLEAN, force_create \in BOOLEAN :
        get_create_titanic_db(csv, fetch_ok, force_create)

Spec == Init /\ [][Next]_vars

\* Row identifiers are stable (C8): once titanic exists it has exactly one
\* id column, whose values are unique and are those the rows were first given.
C8_RowIdsStable ==
    HasTable(catalog, "titanic") =>
        LET t == catalog["titanic"] IN
        /\ Cardinality(ColsNamed(t, "id")) = 1
        /\ \A i, j \in 1..Len(t.rows) : IdColumn(t)[i] = IdColumn(t)[j] => i = j
        /\ IdColumn(t) = firstIds

\* force_create recreates the database (C9): a call with force_create=True on
\* an existing database file returns normally and leaves titanic rebuilt from
\* the CSV at the url: the fresh load plus one new id column.
C9_ForceCreateRebuilds ==
    (lastCall.done /\ lastCall.force_create /\ lastCall.existed /\ lastCall.fetch_ok) =>
        /\ raised = "none"
        /\ HasTable(catalog, "titanic")
        /\ catalog["titanic"] = WithRowNumber(lastCall.csv)

\* ---------------------------------------------- partitioner specification
\* The database after get_create_titanic_db has run once, or once and then
\* again with force_create=True, on some CSV file.
CreatedDatabases ==
    LET files == {CsvFile(0, r) : r \in 0..MaxRows}
        once(csv) == CreateBranch(NoTables, csv, TRUE).cat
    IN {once(csv) : csv \in files}
       \cup {CreateBranch(once(csv), csv, TRUE).cat : csv \in files}

InitPart ==
    /\ fileExists = TRUE
    /\ catalog \in CreatedDatabases
    /\ raised = "none"
    /\ lastCall = NoCall
    /\ firstIds = IdColumn(catalog["titanic"])
    /\ np_random \in Entropy
    /\ samples = <<>>
    /\ sample_size = <<>>
    /\ call = NoPartition
    /\ prev = NoPartition
    /\ identical = "unset"
    /\ validation = NoValidation
    /\ sundered = NoSunder

NextPart ==
    \/ \E n_sample \in SampleCounts, RANDOM_SEED \in Seeds :
           create_random_samples(n_sample, RANDOM_SEED)
    \/ cross_check

SpecPart == InitPart /\ [][NextPart]_vars

\* ------------------------------------------------ validation specification
AgeCells == {NULL, Val(-1), Val(0), Val(70), Val(71), Val(85)}
FareCells == {NULL, Val(-1), Val(0), Val(500), Val(501)}

CleanWith(age, fare) ==
    <<Val(1), Val(1), Val("female"), age, Val(24160), fare, Val("S")>>

\* Rows whose age or fare sits on, inside or outside the bounds, or is null,
\* and rows that break one of the other rules.
ValRows ==
    {CleanWith(a, Val(211)) : a \in AgeCells}
    \cup {CleanWith(Val(29), f) : f \in FareCells}
    \cup {CleanWith(NULL, NULL), CleanWith(Val(85), Val(501)),
          <<Val(4), Val(1), Val("female"), Val(29), Val(24160), Val(211), Val("S")>>,
          <<NULL, Val(0), Val("male"), Val(29), Val(24160), Val(211), Val("C")>>,
          <<Val(3), Val(2), Val("male"), Val(29), Val(24160), Val(211), Val("Q")>>,
          <<Val(3), NULL, Val("male"), Val(29), NULL, Val(211), Val("Q")>>,
          <<Val(2), Val(0), NULL, Val(29), Val(24160), Val(211), Val("Q")>>,
          <<Val(2), Val(0), Val("other"), Val(29), Val(24160), Val(211), Val("Q")>>,
          <<Val(2), Val(0), Val("male"), Val(29), Val(24160), Val(211), Val("X")>>,
          <<Val(2), Val(0), Val("male"), Val(29), Val(24160), Val(211), NULL>>}

ValCsvFiles ==
    {[cols |-> CsvCols, rows |-> rows] :
        rows \in UNION {[1..r -> ValRows] : r \in 0..MaxValRows}}

InitVal ==
    /\ fileExists = TRUE
    /\ catalog \in {CreateBranch(NoTables, csv, TRUE).cat : csv \in ValCsvFiles}
    /\ raised = "none"
    /\ lastCall = NoCall
    /\ firstIds = IdColumn(catalog["titanic"])
    /\ np_random \in Entropy
    /\ samples = <<>>
    /\ sample_size = <<>>
    /\ call = NoPartition
    /\ prev = NoPartition
    /\ identical = "unset"
    /\ validation = NoValidation
    /\ sundered = NoSunder

NextVal ==
    \/ validate_titanic_data_sample
    \/ get_sundered_data

SpecVal == InitVal /\ [][NextVal]_vars

\* ----------------------------------------------------- partitioner claims
\* The last create_random_samples call returned, and was given n_sample >= 1.
Partitioned == call.done /\ call.raised = "none" /\ call.n_sample >= 1

TotalRows == Len(call.table.rows)
\* ceil(R / n), written out for n >= 1
ChunkSize == (TotalRows + call.n_sample - 1) \div call.n_sample

\* Where the rows of the samples are: <<sample, position>>.
Places == UNION {{<<s, p>> : p \in 1..Len(samples[s].rows)} : s \in 1..Len(samples)}
IdAt(place) == Get(Cell(samples[place[1]], samples[place[1]].rows[place[2]], Name("id")))
IdsOf(t) == {IdColumn(t)[i] : i \in 1..Len(t.rows)}

RECURSIVE MaxOf(_)
MaxOf(q) == IF Len(q) = 1 THEN q[1] ELSE Max(Head(q), MaxOf(Tail(q)))
RECURSIVE MinOf(_)
MinOf(q) == IF Len(q) = 1 THEN q[1] ELSE Min(Head(q), MinOf(Tail(q)))

\* Partition completeness (C1): after a call with n >= 1 every row identifier
\* of the table is at exactly one place of the samples, and the samples hold
\* no other identifier.
C1_Completeness ==
    Partitioned =>
        /\ \A id \in IdsOf(call.table) :
               Cardinality({pl \in Places : IdAt(pl) = id}) = 1
        /\ \A pl \in Places : IdAt(pl) \in IdsOf(call.table)

C1_Witness ==
    /\ Partitioned
    /\ TotalRows >= 3
    /\ Cardinality({s \in 1..Len(samples) : samples[s].rows # <<>>}) >= 2

C3_RoundTrip ==
    /\ identical # "No"
    /\ Partitioned => Equals(call.table, SortValues(Concat(samples), Name("id")))

C3_Witness ==
    /\ identical = "Yes"
    /\ Partitioned
    /\ call.n_sample >= 2
    /\ TotalRows >= 3
    /\ Concat(samples).rows # call.table.rows

\* Partition determinism (C4): two calls with the same table, n and seed end
\* the same way and return the same samples and sizes.
C4_Deterministic ==
    (/\ call.done /\ prev.done
     /\ call.table = prev.table
     /\ call.n_sample = prev.n_sample
     /\ call.RANDOM_SEED = prev.RANDOM_SEED)
        => (call.raised = prev.raised /\ call.returned = prev.returned)

C4_Witness ==
    /\ Partitioned /\ prev.done
    /\ call.table = prev.table
    /\ call.n_sample = prev.n_sample
    /\ call.RANDOM_SEED = prev.RANDOM_SEED
    /\ call.n_sample >= 2
    /\ TotalRows >= 3
    /\ call.shuffled.rows # call.table.rows

\* Invalid sample count is rejected (C5): a call with n <= 0 ends in an error
\* and returns nothing.
C5_InvalidCountRejected ==
    (call.done /\ call.n_sample <= 0) => (call.raised # "none" /\ call.returned = <<>>)

\* Chunking as claimed (C10): n samples, the first n-1 of ceil(R/n) rows each
\* and the last of the remaining R - (n-1)*ceil(R/n) rows.
C10_Chunking ==
    Partitioned =>
        /\ Len(samples) = call.n_sample
        /\ \A i \in 1..(call.n_sample - 1) : sample_size[i] = ChunkSize
        /\ sample_size[call.n_sample] = TotalRows - (call.n_sample - 1) * ChunkSize

\* Chunking as the code has it (C10): n samples; sample i is rows
\* (i-1)*ceil(R/n)+1 .. min(i*ceil(R/n), R) of the shuffled sequence, which is
\* a rearrangement of the table's rows, so it holds
\* max(0, min(ceil(R/n), R - (i-1)*ceil(R/n))) rows.
C10_ChunkingAmended ==
    Partitioned =>
        /\ Len(samples) = call.n_sample
        /\ Len(sample_size) = call.n_sample
        /\ Len(call.shuffled.rows) = TotalRows
        /\ IdsOf(call.shuffled) = IdsOf(call.table)
        /\ \A i \in 1..call.n_sample :
              /\ samples[i].rows = SubSeq(call.shuffled.rows, (i - 1) * ChunkSize + 1,
                                          Min(i * ChunkSize, TotalRows))
              /\ sample_size[i] = Max(0, Min(ChunkSize, TotalRows - (i - 1) * ChunkSize))

C10_Witness ==
    /\ Partitioned
    /\ call.n_sample >= 3
    /\ sample_size[call.n_sample - 1] < ChunkSize
    /\ call.shuffled.rows # call.table.rows

\* ------------------------------------------------------ validation claims
Data == validation.data
AgeOf(i) == Cell(Data, Data.rows[i], Name("age"))
FareOf(i) == Cell(Data, Data.rows[i], Name("fare"))

\* Range rule with null policy (C7): the notebook's age step (the 8th) passes a
\* row exactly when its age is null or within 0..70, bounds included; its fare
\* step (the 9th) exactly when its fare is not null and within 0..500.
C7_BetweenNullPolicy ==
    validation.done =>
        \A i \in 1..Len(Data.rows) :
            /\ validation.steps[8].passed[i]
                   <=> (IsNull(AgeOf(i)) \/ (0 <= Get(AgeOf(i)) /\ Get(AgeOf(i)) <= 70))
            /\ validation.steps[9].passed[i]
                   <=> (~IsNull(FareOf(i)) /\ 0 <= Get(FareOf(i)) /\ Get(FareOf(i)) <= 500)

C7_Witness ==
    /\ validation.done
    /\ \E i, j \in 1..Len(Data.rows) :
          /\ IsNull(AgeOf(i)) /\ validation.steps[8].passed[i]
          /\ IsNull(FareOf(i)) /\ ~validation.steps[9].passed[i]
          /\ AgeOf(j) = Val(85) /\ ~validation.steps[8].passed[j]

\* What a row must satisfy to fail no rule of the notebook.
In(c, set) == ~IsNull(c) /\ Get(c) \in set
FailsNoRule(t, row) ==
    /\ In(Cell(t, row, Name("survived")), {0, 1})
    /\ In(Cell(t, row, Name("pclass")), {1, 2, 3})
    /\ In(Cell(t, row, Name("sex")), {"male", "female"})
    /\ In(Cell(t, row, Name("age")), 0..70)
    /\ ~IsNull(Cell(t, row, Name("ticket")))
    /\ In(Cell(t, row, Name("fare")), 0..500)
    /\ In(Cell(t, row, Name("embarked")), {"C", "Q", "S"})

ReturnedIds(type) ==
    IF type \in DOMAIN sundered.returned THEN IdsOf(sundered.returned[type]) ELSE {}
FailingIds ==
    LET t == sundered.of.data IN
    {IdColumn(t)[i] : i \in {k \in 1..Len(t.rows) : ~FailsNoRule(t, t.rows[k])}}

====
